---- MODULE Spec2Model ----
(***************************************************************************)
(* A model of clam_client (PassFort/clam-client): the ClamD client of      *)
(* src/src/client.rs and the response parsers of src/src/response.rs.      *)
(*                                                                         *)
(* Bytes and characters are integers 0..255 (a string is the tuple of its  *)
(* UTF-8 bytes; every text used here is ASCII).  One call of the client is *)
(* a sequence of steps, one per transport or source operation, so that     *)
(* each operation's outcome (success, short count, failure) is a choice of *)
(* the environment.                                                        *)
(***************************************************************************)
EXTENDS Integers, Sequences, FiniteSets, TLC

(***************************************************************************)
(* Bounds of the model.                                                    *)
(***************************************************************************)
\* the source of scan_stream holds at most MaxBlocks full blocks plus a tail
MaxBlocks == 2
\* calls made one after the other on the same client
MaxCalls == 2
\* writes of one call that the transport accepts only in part
MaxPartial == 1

(***************************************************************************)
(* Program constants.                                                      *)
(***************************************************************************)
\* let mut buffer = [0; 4096];
BlockSize == 4096

(***************************************************************************)
(* Generic helpers on sequences.                                           *)
(***************************************************************************)
Min(a, b) == IF a <= b THEN a ELSE b

Last(s) == s[Len(s)]

Take(s, n) == SubSeq(s, 1, Min(n, Len(s)))

Drop(s, n) == SubSeq(s, n + 1, Len(s))

\* does sub occur in s at index i (1-based)
OccursAt(s, sub, i) ==
    /\ i >= 1
    /\ i + Len(sub) - 1 <= Len(s)
    /\ \A k \in 1..Len(sub) : s[i + k - 1] = sub[k]

\* str::starts_with
StartsWith(s, pre) == OccursAt(s, pre, 1)

\* str::ends_with
EndsWith(s, suf) == OccursAt(s, suf, Len(s) - Len(suf) + 1)

\* str::contains
Contains(s, sub) == \E i \in 1..(Len(s) + 1) : OccursAt(s, sub, i)

(***************************************************************************)
(* Wire constants: the commands of client.rs as bytes.                     *)
(***************************************************************************)
\* b"zPING\0"
CmdPing == <<122, 80, 73, 78, 71, 0>>
\* b"zVERSION\0"
CmdVersion == <<122, 86, 69, 82, 83, 73, 79, 78, 0>>
\* b"zRELOAD\0"
CmdReload == <<122, 82, 69, 76, 79, 65, 68, 0>>
\* b"zSTATS\0"
CmdStats == <<122, 83, 84, 65, 84, 83, 0>>
\* b"zSHUTDOWN\0"
CmdShutdown == <<122, 83, 72, 85, 84, 68, 79, 87, 78, 0>>
\* b"zINSTREAM\0"
CmdInstream == <<122, 73, 78, 83, 84, 82, 69, 65, 77, 0>>
\* a variant of FormatContScan that leaves the terminating NUL out
FormatContScanOpen(path) == <<122, 67, 79, 78, 84, 83, 67, 65, 78, 32>> \o path

\* format!("zCONTSCAN {}\0", path)
FormatContScan(path) == <<122, 67, 79, 78, 84, 83, 67, 65, 78, 32>> \o path \o <<0>>
\* format!("zSCAN {}\0", path)
FormatScan(path) == <<122, 83, 67, 65, 78, 32>> \o path \o <<0>>
\* &[0, 0, 0, 0]
Terminator == <<0, 0, 0, 0>>

(***************************************************************************)
(* Integer conversions.                                                    *)
(***************************************************************************)
RECURSIVE ShiftRight8(_, _)
\* n >> (8 * k), by repeated division
ShiftRight8(n, k) == IF k = 0 THEN n ELSE ShiftRight8(n \div 256, k - 1)

\* (bytes_read as u64).to_be_bytes(): eight bytes, most significant first
U64ToBeBytes(n) == [i \in 1..8 |-> ShiftRight8(n, 8 - i) % 256]

\* bytes_read > u32::MAX as usize, i.e. bytes_read >= 2^32 = 65536 * 65536
ExceedsU32(n) == (n \div 65536) >= 65536

RECURSIVE BeValue(_)
\* the unsigned value a big-endian byte string denotes
BeValue(bs) == IF bs = <<>> THEN 0 ELSE BeValue(SubSeq(bs, 1, Len(bs) - 1)) * 256 + Last(bs)

(***************************************************************************)
(* client.rs, error.rs: the values a call returns (ClamResult<T>).         *)
(***************************************************************************)
\* kind "Ok" with the value in flag, text, scans or data; or the ClamError kind
Res(kind, flag, text, scans, data) ==
    [kind |-> kind, flag |-> flag, text |-> text, scans |-> scans, data |-> data]

Pending == Res("Pending", FALSE, <<>>, <<>>, <<>>)

\* Err(ClamError::<kind>(..)), text being the String an InvalidData carries
Failure(kind, text) == Res(kind, FALSE, text, <<>>, <<>>)

\* error.rs: the variants of ClamError a call can return
ErrorKinds ==
    {"ConnectionError", "CommandError", "InvalidData", "IntParseError", "DateParseError",
     "InvalidDataLengthError"}

(***************************************************************************)
(* response.rs: ClamScanResult and ClamScanResult::parse.                  *)
(***************************************************************************)
\* the byte the reply is split on: s_string.split('\0')
NUL == 0

\* char::is_whitespace on ASCII: tab, LF, VT, FF, CR, space
IsWhitespace(c) == c \in {9, 10, 11, 12, 13, 32}

\* the literal "OK"
StrOK == <<79, 75>>

\* the literal "FOUND"
StrFOUND == <<70, 79, 85, 78, 68>>

\* ClamScanResult::Ok
ScanOk == [tag |-> "Ok", a |-> <<>>, b |-> <<>>]

\* ClamScanResult::Found(location, virus)
ScanFound(path, virus) == [tag |-> "Found", a |-> path, b |-> virus]

\* ClamScanResult::Error(message)
ScanError(msg) == [tag |-> "Error", a |-> msg, b |-> <<>>]

RECURSIVE SplitOn(_, _)
\* str::split(d): the pieces between occurrences of d, empty pieces included
SplitOn(s, d) ==
    IF \A i \in 1..Len(s) : s[i] # d
    THEN <<s>>
    ELSE LET i == CHOOSE j \in 1..Len(s) : s[j] = d /\ \A k \in 1..(j - 1) : s[k] # d
         IN  <<SubSeq(s, 1, i - 1)>> \o SplitOn(Drop(s, i), d)

\* a variant of FilterNonEmpty that lets the empty pieces through
FilterKeepsEmpty(ss) == ss

\* Iterator::filter(|s| s != &"")
FilterNonEmpty(ss) == SelectSeq(ss, LAMBDA x : x # <<>>)

RECURSIVE SplitWhitespace(_)
\* str::split_whitespace: the maximal runs of non-whitespace characters
SplitWhitespace(s) ==
    IF s = <<>> THEN <<>>
    ELSE IF IsWhitespace(s[1]) THEN SplitWhitespace(Tail(s))
    ELSE LET stops == {j \in 1..Len(s) : IsWhitespace(s[j])}
             n == IF stops = {} THEN Len(s)
                  ELSE (CHOOSE j \in stops : \A k \in stops : j <= k) - 1
         IN  <<SubSeq(s, 1, n)>> \o SplitWhitespace(Drop(s, n))

\* a variant of TrimEndMatches that removes one trailing c only
TrimEndOnce(s, c) ==
    IF s # <<>> /\ Last(s) = c THEN SubSeq(s, 1, Len(s) - 1) ELSE s

RECURSIVE TrimEndMatches(_, _)
\* str::trim_end_matches(c): every trailing c removed
TrimEndMatches(s, c) ==
    IF s # <<>> /\ Last(s) = c THEN TrimEndMatches(SubSeq(s, 1, Len(s) - 1), c) ELSE s

RECURSIVE TakeWhileNotFound(_)
\* Iterator::take_while(|s| !s.starts_with("FOUND"))
TakeWhileNotFound(toks) ==
    IF toks = <<>> \/ StartsWith(Head(toks), StrFOUND) THEN <<>>
    ELSE <<Head(toks)>> \o TakeWhileNotFound(Tail(toks))

RECURSIVE ConcatSpaced(_)
\* a variant of Concat that puts a space between the pieces
ConcatSpaced(ss) ==
    IF ss = <<>> THEN <<>>
    ELSE IF Len(ss) = 1 THEN Head(ss)
    ELSE Head(ss) \o <<32>> \o ConcatSpaced(Tail(ss))

RECURSIVE Concat(_)
\* Iterator::collect::<String>(): the pieces joined with nothing between them
Concat(ss) == IF ss = <<>> THEN <<>> ELSE Head(ss) \o Concat(Tail(ss))

\* a variant of ClassifySegment that looks for "FOUND" before the "OK" suffix
ClassifySegmentFoundFirst(s) ==
    IF Contains(s, StrFOUND)
    THEN LET split == SplitWhitespace(s)
         IN  ScanFound(TrimEndMatches(Head(split), 58),
                       Concat(TakeWhileNotFound(Tail(split))))
    ELSE IF EndsWith(s, StrOK) THEN ScanOk
    ELSE ScanError(s)

\* the closure of ClamScanResult::parse: one segment to one ClamScanResult
ClassifySegment(s) ==
    IF EndsWith(s, StrOK) THEN ScanOk
    ELSE IF Contains(s, StrFOUND)
    THEN LET split == SplitWhitespace(s)
         IN  IF split = <<>> THEN [tag |-> "Panic", a |-> s, b |-> <<>>]
             ELSE ScanFound(TrimEndMatches(Head(split), 58),
                            Concat(TakeWhileNotFound(Tail(split))))
    ELSE ScanError(s)

\* ClamScanResult::parse
ClamScanResultParse(sString) ==
    LET segs == FilterNonEmpty(SplitOn(sString, NUL))
    IN  [i \in 1..Len(segs) |-> ClassifySegment(segs[i])]

(***************************************************************************)
(* response.rs: ClamVersion::parse.                                        *)
(***************************************************************************)
\* the characters '+', '/', ':' and the digits '0'..'9'
IsDigit(c) == c >= 48 /\ c <= 57

RECURSIVE StripLeadingZeros(_)
StripLeadingZeros(d) ==
    IF Len(d) > 1 /\ d[1] = 48 THEN StripLeadingZeros(Tail(d)) ELSE d

\* "18446744073709551615", u64::MAX in decimal
U64MaxDigits ==
    <<49, 56, 52, 52, 54, 55, 52, 52, 48, 55, 51, 55, 48, 57, 53, 53, 49, 54, 49, 53>>

\* a < b for digit strings of one length
DigitsLess(a, b) ==
    \E i \in 1..Len(a) : a[i] < b[i] /\ \A k \in 1..(i - 1) : a[k] = b[k]

RECURSIVE DecValue(_)
\* the number a digit string denotes (the model's inputs stay below 10 digits)
DecValue(d) ==
    IF d = <<>> THEN 0 ELSE DecValue(SubSeq(d, 1, Len(d) - 1)) * 10 + (Last(d) - 48)

\* u64::from_str: an optional '+', then one or more digits, no overflow
ParseU64(s) ==
    LET d == IF s # <<>> /\ s[1] = 43 THEN Tail(s) ELSE s
        sig == StripLeadingZeros(d)
    IN  IF d = <<>> \/ \E i \in 1..Len(d) : ~IsDigit(d[i])
        THEN [ok |-> FALSE, value |-> 0]
        ELSE IF Len(sig) > 20 \/ (Len(sig) = 20 /\ DigitsLess(U64MaxDigits, sig))
        THEN [ok |-> FALSE, value |-> 0]
        ELSE [ok |-> TRUE, value |-> DecValue(sig)]

\* "Wed Aug  1 08:43:37 2018", the date of the reference VERSION reply
RefDate ==
    <<87, 101, 100, 32, 65, 117, 103, 32, 32, 49, 32, 48, 56, 58, 52, 51, 58, 51, 55, 32, 50,
      48, 49, 56>>

\* Utc.datetime_from_str(s, "%a %b %e %T %Y"): chrono's parser, known here on
\* the reference date only; any other text read as not matching the format
ParseDate(s) ==
    IF s = RefDate
    THEN [ok |-> TRUE, value |-> <<2018, 8, 1, 8, 43, 37>>]
    ELSE [ok |-> FALSE, value |-> <<>>]

\* a variant of ClamVersionParse whose InvalidData carries the trimmed text
ClamVersionParseTrimmed(vString) ==
    LET parts == SplitOn(TrimEndMatches(vString, NUL), 47)
    IN  IF Len(parts) # 3 THEN Failure("InvalidData", TrimEndMatches(vString, NUL))
        ELSE LET bn == ParseU64(parts[2])
                 dt == ParseDate(parts[3])
             IN  IF ~bn.ok THEN Failure("IntParseError", <<>>)
                 ELSE IF ~dt.ok THEN Failure("DateParseError", <<>>)
                 ELSE Res("Ok", FALSE, <<>>, <<>>,
                          [version_tag |-> parts[1], build_number |-> bn.value,
                           release_date |-> dt.value])

\* a variant of ClamVersionParse that reads the date before the build number
ClamVersionParseDateFirst(vString) ==
    LET parts == SplitOn(TrimEndMatches(vString, NUL), 47)
    IN  IF Len(parts) # 3 THEN Failure("InvalidData", vString)
        ELSE LET bn == ParseU64(parts[2])
                 dt == ParseDate(parts[3])
             IN  IF ~dt.ok THEN Failure("DateParseError", <<>>)
                 ELSE IF ~bn.ok THEN Failure("IntParseError", <<>>)
                 ELSE Res("Ok", FALSE, <<>>, <<>>,
                          [version_tag |-> parts[1], build_number |-> bn.value,
                           release_date |-> dt.value])

\* ClamVersion::parse
ClamVersionParse(vString) ==
    LET parts == SplitOn(TrimEndMatches(vString, NUL), 47)
    IN  IF Len(parts) # 3 THEN Failure("InvalidData", vString)
        ELSE LET bn == ParseU64(parts[2])
                 dt == ParseDate(parts[3])
             IN  IF ~bn.ok THEN Failure("IntParseError", <<>>)
                 ELSE IF ~dt.ok THEN Failure("DateParseError", <<>>)
                 ELSE Res("Ok", FALSE, <<>>, <<>>,
                          [version_tag |-> parts[1], build_number |-> bn.value,
                           release_date |-> dt.value])

(***************************************************************************)
(* response.rs: ClamStats::parse and the nom parser parse_stats.           *)
(***************************************************************************)
\* tag!("POOLS: ")
StatsTag == <<80, 79, 79, 76, 83, 58, 32>>

\* the literals of the take_until_and_consume! and take_until! steps, in order
StatsAnchors ==
    << <<10, 10, 83, 84, 65, 84, 69, 58, 32>>,
       <<10, 84, 72, 82, 69, 65, 68, 83, 58, 32, 108, 105, 118, 101, 32>>,
       <<32, 32, 105, 100, 108, 101, 32>>,
       <<32, 109, 97, 120, 32>>,
       <<32, 105, 100, 108, 101, 45, 116, 105, 109, 101, 111, 117, 116, 32>>,
       <<10, 81, 85, 69, 85, 69, 58, 32>>,
       <<32, 105, 116, 101, 109, 115, 10>>,
       <<104, 101, 97, 112, 32>>,
       <<32, 109, 109, 97, 112, 32>>,
       <<32, 117, 115, 101, 100, 32>>,
       <<32, 102, 114, 101, 101, 32>>,
       <<32, 114, 101, 108, 101, 97, 115, 97, 98, 108, 101, 32>>,
       <<32, 112, 111, 111, 108, 115, 32>>,
       <<112, 111, 111, 108, 115, 95, 117, 115, 101, 100, 32>>,
       <<32, 112, 111, 111, 108, 115, 95, 116, 111, 116, 97, 108, 32>>,
       <<10>> >>

\* the first index at which sub occurs in s, 0 if it does not
FindFirst(s, sub) ==
    LET hits == {i \in 1..Len(s) : OccursAt(s, sub, i)}
    IN  IF hits = {} THEN 0 ELSE CHOOSE i \in hits : \A k \in hits : i <= k

RECURSIVE ScanAnchors(_, _)
\* the chain of take_until steps: the text before each literal, in order
ScanAnchors(input, anchors) ==
    IF anchors = <<>> THEN [ok |-> TRUE, fields |-> <<>>]
    ELSE LET i == FindFirst(input, Head(anchors))
         IN  IF i = 0 THEN [ok |-> FALSE, fields |-> <<>>]
             ELSE LET r == ScanAnchors(Drop(input, i + Len(Head(anchors)) - 1),
                                       Tail(anchors))
                  IN  IF r.ok
                      THEN [ok |-> TRUE, fields |-> <<SubSeq(input, 1, i - 1)>> \o r.fields]
                      ELSE r

\* the fields converted by map_res!(.., u64::from_str): pools, threads live,
\* idle, max, idle-timeout and queue
StatsNumeric == {1, 3, 4, 5, 6, 7}

\* a variant of ParseStats with the idle and max thread counts taken for each other
ParseStatsSwapped(input) ==
    IF ~StartsWith(input, StatsTag) THEN [ok |-> FALSE, stats |-> <<>>]
    ELSE LET r == ScanAnchors(Drop(input, Len(StatsTag)), StatsAnchors)
             f == r.fields
         IN  IF ~r.ok \/ \E i \in StatsNumeric : ~ParseU64(f[i]).ok
             THEN [ok |-> FALSE, stats |-> <<>>]
             ELSE [ok |-> TRUE,
                   stats |-> [pools |-> ParseU64(f[1]).value,
                              state |-> f[2],
                              threads_live |-> ParseU64(f[3]).value,
                              threads_idle |-> ParseU64(f[5]).value,
                              threads_max |-> ParseU64(f[4]).value,
                              threads_idle_timeout_secs |-> ParseU64(f[6]).value,
                              queue |-> ParseU64(f[7]).value,
                              mem_heap |-> f[9],
                              mem_mmap |-> f[10],
                              mem_used |-> f[11],
                              mem_free |-> f[12],
                              mem_releasable |-> f[13],
                              pools_used |-> f[15],
                              pools_total |-> f[16]]]

\* parse_stats
ParseStats(input) ==
    IF ~StartsWith(input, StatsTag) THEN [ok |-> FALSE, stats |-> <<>>]
    ELSE LET r == ScanAnchors(Drop(input, Len(StatsTag)), StatsAnchors)
             f == r.fields
         IN  IF ~r.ok \/ \E i \in StatsNumeric : ~ParseU64(f[i]).ok
             THEN [ok |-> FALSE, stats |-> <<>>]
             ELSE [ok |-> TRUE,
                   stats |-> [pools |-> ParseU64(f[1]).value,
                              state |-> f[2],
                              threads_live |-> ParseU64(f[3]).value,
                              threads_idle |-> ParseU64(f[4]).value,
                              threads_max |-> ParseU64(f[5]).value,
                              threads_idle_timeout_secs |-> ParseU64(f[6]).value,
                              queue |-> ParseU64(f[7]).value,
                              mem_heap |-> f[9],
                              mem_mmap |-> f[10],
                              mem_used |-> f[11],
                              mem_free |-> f[12],
                              mem_releasable |-> f[13],
                              pools_used |-> f[15],
                              pools_total |-> f[16]]]

\* a variant of ClamStatsParse whose InvalidData carries the text after "POOLS: "
ClamStatsParseRest(sString) ==
    LET r == ParseStats(sString)
    IN  IF r.ok THEN Res("Ok", FALSE, <<>>, <<>>, r.stats)
        ELSE Failure("InvalidData", Drop(sString, Len(StatsTag)))

\* ClamStats::parse
ClamStatsParse(sString) ==
    LET r == ParseStats(sString)
    IN  IF r.ok THEN Res("Ok", FALSE, <<>>, <<>>, r.stats)
        ELSE Failure("InvalidData", sString)

(***************************************************************************)
(* Inputs of the model.                                                    *)
(***************************************************************************)
\* the length of a source's last, shorter block
TailLen == 1808

\* the source lengths tried: every whole number of blocks (0, 4096, 8192), a
\* source shorter than a block (1808) and the longest with a tail (10000)
SrcLens ==
    {b * BlockSize : b \in 0..MaxBlocks} \cup {TailLen, MaxBlocks * BlockSize + TailLen}

\* the content of a source of the given length: no byte of it is zero
SourceOf(len) == [i \in 1..len |-> (i % 255) + 1]

\* the sources handed to scan_stream
Sources == {SourceOf(len) : len \in SrcLens}

\* the paths handed to scan_path and multiscan_path: "/a", "/t x"
Paths == {<<47, 97>>, <<47, 116, 32, 120>>}

\* pieces a daemon reply is made of: NUL, "s: OK", "s: V FOUND" NUL, "PONG"
ReplyPieces ==
    { <<0>>,
      <<115, 58, 32, 79, 75>>,
      <<115, 58, 32, 86, 32, 70, 79, 85, 78, 68, 0>>,
      <<80, 79, 78, 71>> }

\* the replies a daemon may give: up to two pieces
Replies ==
    {<<>>} \cup ReplyPieces \cup {x \o y : x \in ReplyPieces, y \in ReplyPieces}

\* "ClamAV 0.100.0/24802/Wed Aug  1 08:43:37 2018", the reference VERSION reply
RefVersion ==
    <<67, 108, 97, 109, 65, 86, 32, 48, 46, 49, 48, 48, 46, 48, 47, 50, 52, 56, 48, 50, 47, 87,
      101, 100, 32, 65, 117, 103, 32, 32, 49, 32, 48, 56, 58, 52, 51, 58, 51, 55, 32, 50, 48,
      49, 56>>

\* the replies to VERSION tried: the reference with and without its NUL,
\* "onlyonepart", "ClamAV/x/Wed" and "ClamAV/7/Wed"
VersionReplies ==
    { RefVersion, RefVersion \o <<0>>,
      <<111, 110, 108, 121, 111, 110, 101, 112, 97, 114, 116>>,
      <<67, 108, 97, 109, 65, 86, 47, 120, 47, 87, 101, 100>>,
      <<67, 108, 97, 109, 65, 86, 47, 55, 47, 87, 101, 100>> }

\* the reference STATS reply of the tests of response.rs
RefStats ==
    <<80, 79, 79, 76, 83, 58, 32, 49, 10, 10, 83, 84, 65, 84, 69, 58, 32, 86, 65, 76, 73, 68,
      32, 80, 82, 73, 77, 65, 82, 89, 10, 84, 72, 82, 69, 65, 68, 83, 58, 32, 108, 105, 118,
      101, 32, 49, 32, 32, 105, 100, 108, 101, 32, 48, 32, 109, 97, 120, 32, 49, 50, 32, 105,
      100, 108, 101, 45, 116, 105, 109, 101, 111, 117, 116, 32, 51, 48, 10, 81, 85, 69, 85, 69,
      58, 32, 48, 32, 105, 116, 101, 109, 115, 10, 9, 83, 84, 65, 84, 83, 32, 48, 46, 48, 48,
      48, 51, 57, 52, 10, 10, 77, 69, 77, 83, 84, 65, 84, 83, 58, 32, 104, 101, 97, 112, 32,
      57, 46, 48, 56, 50, 77, 32, 109, 109, 97, 112, 32, 48, 46, 48, 48, 48, 77, 32, 117, 115,
      101, 100, 32, 54, 46, 57, 48, 50, 77, 32, 102, 114, 101, 101, 32, 50, 46, 49, 56, 52, 77,
      32, 114, 101, 108, 101, 97, 115, 97, 98, 108, 101, 32, 48, 46, 49, 50, 57, 77, 32, 112,
      111, 111, 108, 115, 32, 49, 32, 112, 111, 111, 108, 115, 95, 117, 115, 101, 100, 32, 53,
      54, 53, 46, 57, 55, 57, 77, 32, 112, 111, 111, 108, 115, 95, 116, 111, 116, 97, 108, 32,
      53, 54, 53, 46, 57, 57, 57, 77, 10, 69, 78, 68, 0>>

\* the replies to STATS tried: the reference, the reference cut short, nothing
StatsReplies == {RefStats, SubSeq(RefStats, 1, 120), <<>>}

\* the replies a daemon may give to a command
RepliesTo(o) ==
    CASE o = "version" -> VersionReplies
      [] o = "stats" -> StatsReplies
      [] OTHER -> Replies

\* the byte counts a transport may accept of a write of len bytes, short of all
PartialCounts(len) == {k \in {len \div 2} : 0 < k /\ k < len}

\* the byte counts a read of the source may return when `remaining` bytes are
\* left: as many as fit the buffer, or fewer (a short read); 0 only at the end
ReadCounts(remaining) ==
    {Min(BlockSize, remaining)} \cup {k \in {1} : k < Min(BlockSize, remaining)}

(***************************************************************************)
(* client.rs: new, new_with_timeout and build.                             *)
(***************************************************************************)
\* one group of a dotted IPv4 address: one to three digits, no leading zero,
\* at most 255
IsOctet(s) ==
    /\ Len(s) \in 1..3
    /\ \A i \in 1..Len(s) : IsDigit(s[i])
    /\ Len(s) > 1 => s[1] # 48
    /\ DecValue(s) <= 255

\* ip.parse::<IpAddr>(), for text without ':' (the IPv4 form: four groups
\* separated by '.')
ParseIpAddr(ip) ==
    LET groups == SplitOn(ip, 46)
    IN  IF Len(groups) = 4 /\ \A i \in 1..4 : IsOctet(groups[i])
        THEN [ok |-> TRUE, value |-> [i \in 1..4 |-> DecValue(groups[i])]]
        ELSE [ok |-> FALSE, value |-> <<>>]

\* SocketAddr::new(addr, port)
SocketAddrNew(addr, port) == [ip |-> addr, port |-> port]

\* Duration::from_secs(secs)
DurationFromSecs(secs) == [secs |-> secs, nanos |-> 0]

\* Option: None is <<>>, Some(x) is <<x>>
None == <<>>

Some(x) == <<x>>

\* a variant of build that leaves the timeout out of the client
BuildWithoutTimeout(ip, port, timeout) ==
    LET addr == ParseIpAddr(ip)
    IN  IF ~addr.ok THEN [status |-> "InvalidIpAddress", socket |-> None, timeout |-> None]
        ELSE [status |-> "Ok", socket |-> Some(SocketAddrNew(addr.value, port)),
              timeout |-> None]

\* build(ip, port, timeout): Err(InvalidIpAddress) or Ok(ClamClient { timeout, socket })
Build(ip, port, timeout) ==
    LET addr == ParseIpAddr(ip)
    IN  IF ~addr.ok THEN [status |-> "InvalidIpAddress", socket |-> None, timeout |-> None]
        ELSE [status |-> "Ok", socket |-> Some(SocketAddrNew(addr.value, port)),
              timeout |-> timeout]

\* nothing constructed yet
NoClient ==
    [fn |-> "none", ip |-> <<>>, port |-> 0, secs |-> None,
     built |-> [status |-> "None", socket |-> None, timeout |-> None]]

\* connect(): TcpStream::connect_timeout(&self.socket, t) if let Some(t) =
\* self.timeout, TcpStream::connect(&self.socket) otherwise
ConnectVia(self) ==
    IF self.timeout # None
    THEN [fn |-> "TcpStream::connect_timeout", socket |-> self.socket[1],
          timeout |-> Some(self.timeout[1])]
    ELSE [fn |-> "TcpStream::connect", socket |-> self.socket[1], timeout |-> None]

\* "127.0.0.1" and texts that are no IP address: "localhost", "256.0.0.1",
\* "127.0.0" and ""
IpTexts ==
    { <<49, 50, 55, 46, 48, 46, 48, 46, 49>>,
      <<108, 111, 99, 97, 108, 104, 111, 115, 116>>,
      <<50, 53, 54, 46, 48, 46, 48, 46, 49>>,
      <<49, 50, 55, 46, 48, 46, 48>>,
      <<>> }

Ports == {3310}

TimeoutSecs == {60}

(***************************************************************************)
(* State.                                                                  *)
(***************************************************************************)
VARIABLES
    client,     \* what new / new_with_timeout was given and what it returned
    callNo,     \* calls started so far on this client
    consumed,   \* shutdown(self) has taken the client
    op,         \* the call in progress, "none" between calls
    arg,        \* the arguments of the call in progress (history)
    cmd,        \* the command bytes of a send_command call
    pc,         \* the position of the call in its code
    conn,       \* the TcpStream of this call (0: none)
    nextConn,   \* connect attempts so far (each connection gets a fresh number)
    src,        \* scan_stream: the bytes of the source
    pos,        \* scan_stream: bytes of the source read so far
    buffer,     \* scan_stream: let mut buffer = [0; 4096]
    bytesRead,  \* scan_stream: the bytes_read of the last source read
    srcReads,   \* scan_stream: reads of the source made so far (history)
    srcFailed,  \* scan_stream: a read of the source returned Err (history)
    sent,       \* the writes of this call, in order (history)
    partials,   \* writes of this call accepted only in part (history)
    events,     \* the transport operations of this call, in order (history)
    connUse,    \* <<connection, call>> for every transport operation (history)
    phaseLog,   \* the phases this call went through (history)
    reply,      \* the response text read, <<>> before
    result,     \* what the call returned, kind "Pending" before
    input,      \* a parser tried on its own: the text handed to it
    output      \* a parser tried on its own: what it returned, <<>> before

vars == <<client, callNo, consumed, op, arg, cmd, pc, conn, nextConn, src, pos, buffer, bytesRead,
          srcReads, srcFailed, sent, partials, events, connUse, phaseLog, reply, result,
          input, output>>

\* the state of a call of the client
callVars == <<client, callNo, consumed, op, arg, cmd, pc, conn, nextConn, src, pos, buffer,
              bytesRead, srcReads, srcFailed, sent, partials, events, connUse, phaseLog,
              reply, result>>

\* the state of a parser tried on its own
parseVars == <<input, output>>

streamVars == <<src, pos, buffer, bytesRead, srcReads, srcFailed>>

\* the zeroed buffer of scan_stream
ZeroBuffer == [i \in 1..BlockSize |-> 0]

\* the phase of the per-call state machine a code position belongs to
Phase(p) ==
    CASE p = "Idle" -> "Idle"
      [] p = "Connecting" -> "Connecting"
      [] p \in {"WriteAll", "StreamCommand", "StreamRead", "StreamHeader",
                "StreamPayload", "StreamTerminator"} -> "Sending"
      [] p = "Reading" -> "Reading"
      [] p = "Done" -> "Done"
      [] p = "Failed" -> "Failed"

\* move to a code position, noting a change of phase
Goto(p) ==
    /\ pc' = p
    /\ phaseLog' = IF Phase(p) # Phase(pc) THEN Append(phaseLog, Phase(p)) ELSE phaseLog

\* note one transport operation of this call on its connection
Note(kind, c, ok) ==
    /\ events' = Append(events, [kind |-> kind, conn |-> c, ok |-> ok,
                                  via |-> IF kind = "connect" THEN ConnectVia(client.built)
                                          ELSE <<>>])
    /\ connUse' = connUse \cup {<<c, callNo>>}

\* nothing constructed yet, no call made yet
ClientInit ==
    /\ client = NoClient
    /\ callNo = 0
    /\ consumed = FALSE
    /\ op = "none"
    /\ arg = <<>>
    /\ cmd = <<>>
    /\ pc = "Idle"
    /\ conn = 0
    /\ nextConn = 0
    /\ src = <<>>
    /\ pos = 0
    /\ buffer = ZeroBuffer
    /\ bytesRead = 0
    /\ srcReads = 0
    /\ srcFailed = FALSE
    /\ sent = <<>>
    /\ partials = 0
    /\ events = <<>>
    /\ connUse = {}
    /\ phaseLog = <<"Idle">>
    /\ reply = <<>>
    /\ result = Pending
    /\ output = <<>>

Init == ClientInit /\ input = <<>>

(***************************************************************************)
(* client.rs: what each command makes of send_command's ClamResult<String>. *)
(***************************************************************************)
\* the literal "PONG"
StrPONG == <<80, 79, 78, 71>>

\* ping: Ok(resp) => resp == "PONG", Err(_) => false
PingResult(r) == Res("Bool", r.kind = "Ok" /\ r.text = StrPONG, <<>>, <<>>, <<>>)

\* scan_path, multiscan_path: send_command(..)? then Ok(ClamScanResult::parse(result))
ScanPathResult(r) ==
    IF r.kind = "Ok" THEN Res("Ok", FALSE, <<>>, ClamScanResultParse(r.text), <<>>) ELSE r

\* version: send_command(..)? then ClamVersion::parse(resp)
VersionResult(r) == IF r.kind = "Ok" THEN ClamVersionParse(r.text) ELSE r

\* stats: send_command(..)? then ClamStats::parse(&resp)
StatsResult(r) == IF r.kind = "Ok" THEN ClamStatsParse(r.text) ELSE r

\* the value a command returns, given what its send_command returned
Finish(o, r) ==
    CASE o = "ping" -> PingResult(r)
      [] o \in {"scan_path", "multiscan_path"} -> ScanPathResult(r)
      [] o = "version" -> VersionResult(r)
      [] o = "stats" -> StatsResult(r)
      [] OTHER -> r

\* a variant of StreamResult that accepts one outcome only
StreamResultExactlyOne(text) ==
    LET scanResult == ClamScanResultParse(text)
    IN  IF Len(scanResult) = 1
        THEN Res("Ok", FALSE, <<>>, <<Head(scanResult)>>, <<>>)
        ELSE Failure("InvalidData", text)

\* a variant of StreamResult that reads a reply without outcomes as a clean scan
StreamResultDefaultOk(text) ==
    LET scanResult == ClamScanResultParse(text)
    IN  IF scanResult # <<>>
        THEN Res("Ok", FALSE, <<>>, <<Head(scanResult)>>, <<>>)
        ELSE Res("Ok", FALSE, <<>>, <<ScanOk>>, <<>>)

\* scan_stream, after read_to_string succeeded: the first outcome, or InvalidData
StreamResult(text) ==
    LET scanResult == ClamScanResultParse(text)
    IN  IF scanResult # <<>>
        THEN Res("Ok", FALSE, <<>>, <<Head(scanResult)>>, <<>>)
        ELSE Failure("InvalidData", text)

\* scan_stream, when read_to_string failed
StreamReadError == Failure("ConnectionError", <<>>)

\* send_command, when read_to_string failed
SendReadError == Failure("CommandError", <<>>)

\* send_command and connection_write, when the write failed
WriteError == Failure("CommandError", <<>>)

\* connect, when TcpStream::connect failed
ConnectError == Failure("ConnectionError", <<>>)

\* a variant of LoopBreaks that does not take an empty read for a short one
LoopBreaksOnData(n) == n < BlockSize /\ n > 0

\* the while loop of scan_stream leaves after the chunk of a read this short
LoopBreaks(n) == n < BlockSize

\* a variant of ChunkHeader whose length wraps at the size of the buffer
ChunkHeaderWrapped(n) == U64ToBeBytes(n % BlockSize)

\* the chunk header scan_stream writes for a read of n bytes
ChunkHeader(n) == U64ToBeBytes(n)

\* the chunk payload scan_stream writes after a read of n bytes into buf
ChunkPayload(buf, n) == buf

(***************************************************************************)
(* Constructing the client.                                                *)
(***************************************************************************)
\* ClamClient::new(ip, port)
New ==
    /\ client = NoClient
    /\ \E ip \in IpTexts, port \in Ports :
           client' = [fn |-> "new", ip |-> ip, port |-> port, secs |-> None,
                      built |-> Build(ip, port, None)]
    /\ UNCHANGED <<parseVars, callNo, consumed, op, arg, cmd, pc, conn, nextConn,
                   streamVars, sent, partials, events, connUse, phaseLog, reply, result>>

\* ClamClient::new_with_timeout(ip, port, timeout_secs)
NewWithTimeout ==
    /\ client = NoClient
    /\ \E ip \in IpTexts, port \in Ports, secs \in TimeoutSecs :
           client' = [fn |-> "new_with_timeout", ip |-> ip, port |-> port,
                      secs |-> Some(secs),
                      built |-> Build(ip, port, Some(DurationFromSecs(secs)))]
    /\ UNCHANGED <<parseVars, callNo, consumed, op, arg, cmd, pc, conn, nextConn,
                   streamVars, sent, partials, events, connUse, phaseLog, reply, result>>

(***************************************************************************)
(* Starting a call.                                                        *)
(***************************************************************************)
Start(o, a, c, source) ==
    /\ client.built.status = "Ok"
    /\ pc = "Idle"
    /\ ~consumed
    /\ callNo < MaxCalls
    /\ callNo' = callNo + 1
    /\ consumed' = (o = "shutdown")
    /\ op' = o
    /\ arg' = a
    /\ cmd' = c
    /\ src' = source
    /\ Goto("Connecting")
    /\ UNCHANGED <<parseVars, client, conn, nextConn, pos, buffer, bytesRead, srcReads,
                   srcFailed, sent, partials, events, connUse, reply, result>>

CallPing == Start("ping", <<>>, CmdPing, <<>>)

CallVersion == Start("version", <<>>, CmdVersion, <<>>)

CallReload == Start("reload", <<>>, CmdReload, <<>>)

CallStats == Start("stats", <<>>, CmdStats, <<>>)

CallShutdown == Start("shutdown", <<>>, CmdShutdown, <<>>)

CallScanPath ==
    \E path \in Paths, continueOnVirus \in BOOLEAN :
        Start("scan_path", <<path, continueOnVirus>>,
              IF continueOnVirus THEN FormatContScan(path) ELSE FormatScan(path), <<>>)

CallMultiscanPath == \E path \in Paths : Start("multiscan_path", <<path>>, FormatScan(path), <<>>)

CallScanStream == \E source \in Sources : Start("scan_stream", <<>>, <<>>, source)

(***************************************************************************)
(* connect                                                                 *)
(***************************************************************************)
ConnectOk ==
    /\ pc = "Connecting"
    /\ nextConn' = nextConn + 1
    /\ conn' = nextConn + 1
    /\ Note("connect", nextConn + 1, TRUE)
    /\ Goto(IF op = "scan_stream" THEN "StreamCommand" ELSE "WriteAll")
    /\ UNCHANGED <<parseVars, client, arg, callNo, consumed, op, cmd, streamVars, sent,
                   partials, reply, result>>

\* a variant of ConnectFail that tries to connect again
ConnectRetry ==
    /\ pc = "Connecting"
    /\ nextConn' = nextConn + 1
    /\ Note("connect", nextConn + 1, FALSE)
    /\ UNCHANGED <<parseVars, client, arg, callNo, consumed, op, cmd, pc, conn, streamVars,
                   sent, partials, phaseLog, reply, result>>

ConnectFail ==
    /\ pc = "Connecting"
    /\ nextConn' = nextConn + 1
    /\ Note("connect", nextConn + 1, FALSE)
    /\ result' = IF op = "scan_stream" THEN ConnectError ELSE Finish(op, ConnectError)
    /\ Goto("Failed")
    /\ UNCHANGED <<parseVars, client, arg, callNo, consumed, op, cmd, conn, streamVars,
                   sent, partials, reply>>

(***************************************************************************)
(* send_command                                                            *)
(***************************************************************************)
Written(part, data, accepted, ok) ==
    [part |-> part, data |-> data, accepted |-> accepted, ok |-> ok,
     n |-> bytesRead, start |-> pos - bytesRead]

\* connection.write_all(command) succeeded: every byte was taken
SendWriteOk ==
    /\ pc = "WriteAll"
    /\ sent' = Append(sent, Written("command", cmd, Len(cmd), TRUE))
    /\ Note("write", conn, TRUE)
    /\ Goto("Reading")
    /\ UNCHANGED <<parseVars, client, arg, callNo, consumed, op, cmd, conn, nextConn,
                   streamVars, partials, reply, result>>

\* connection.write_all(command) failed, after some of the bytes perhaps
SendWriteFail ==
    /\ pc = "WriteAll"
    /\ \E k \in {0} \cup PartialCounts(Len(cmd)) :
           sent' = Append(sent, Written("command", cmd, k, FALSE))
    /\ Note("write", conn, FALSE)
    /\ result' = Finish(op, WriteError)
    /\ Goto("Failed")
    /\ UNCHANGED <<parseVars, client, arg, callNo, consumed, op, cmd, conn, nextConn,
                   streamVars, partials, reply>>

\* connection.read_to_string(&mut result) succeeded, and the command's own code
SendReadOk ==
    /\ pc = "Reading"
    /\ op # "scan_stream"
    /\ \E r \in RepliesTo(op) :
        /\ reply' = r
        /\ result' = Finish(op, Res("Ok", FALSE, r, <<>>, <<>>))
        /\ Goto(IF result'.kind \in ErrorKinds THEN "Failed" ELSE "Done")
    /\ Note("read", conn, TRUE)
    /\ UNCHANGED <<parseVars, client, arg, callNo, consumed, op, cmd, conn, nextConn,
                   streamVars, sent, partials>>

SendReadFail ==
    /\ pc = "Reading"
    /\ op # "scan_stream"
    /\ result' = Finish(op, SendReadError)
    /\ Note("read", conn, FALSE)
    /\ Goto("Failed")
    /\ UNCHANGED <<parseVars, client, arg, callNo, consumed, op, cmd, conn, nextConn,
                   streamVars, sent, partials, reply>>

(***************************************************************************)
(* scan_stream                                                             *)
(***************************************************************************)
\* connection_write(&connection, data)?: connection.write(data) took v bytes
ConnectionWriteOk(part, data, next) ==
    /\ \E v \in {Len(data)} \cup
                (IF partials < MaxPartial THEN PartialCounts(Len(data)) ELSE {}) :
        /\ sent' = Append(sent, Written(part, data, v, TRUE))
        /\ partials' = IF v < Len(data) THEN partials + 1 ELSE partials
    /\ Note("write", conn, TRUE)
    /\ Goto(next)
    /\ UNCHANGED <<parseVars, client, arg, callNo, consumed, op, cmd, conn, nextConn,
                   streamVars, reply, result>>

\* a variant of ConnectionWriteFail that lets the call go on to read the response
ConnectionWriteIgnored(part, data) ==
    /\ sent' = Append(sent, Written(part, data, 0, FALSE))
    /\ Note("write", conn, FALSE)
    /\ Goto("Reading")
    /\ UNCHANGED <<parseVars, client, arg, callNo, consumed, op, cmd, conn, nextConn,
                   streamVars, partials, reply, result>>

\* connection_write(&connection, data)?: connection.write(data) failed
ConnectionWriteFail(part, data) ==
    /\ sent' = Append(sent, Written(part, data, 0, FALSE))
    /\ Note("write", conn, FALSE)
    /\ result' = WriteError
    /\ Goto("Failed")
    /\ UNCHANGED <<parseVars, client, arg, callNo, consumed, op, cmd, conn, nextConn,
                   streamVars, partials, reply>>

StreamCommandOk ==
    pc = "StreamCommand" /\ ConnectionWriteOk("command", CmdInstream, "StreamRead")

StreamCommandFail == pc = "StreamCommand" /\ ConnectionWriteFail("command", CmdInstream)

\* reader.read(&mut buffer) returned Ok(n)
StreamReadOk ==
    /\ pc = "StreamRead"
    /\ \E n \in ReadCounts(Len(src) - pos) :
        /\ bytesRead' = n
        /\ buffer' = [i \in 1..BlockSize |-> IF i <= n THEN src[pos + i] ELSE buffer[i]]
        /\ pos' = pos + n
        /\ IF ExceedsU32(n)
           THEN result' = Failure("InvalidDataLengthError", <<>>) /\ Goto("Failed")
           ELSE result' = result /\ Goto("StreamHeader")
    /\ srcReads' = srcReads + 1
    /\ UNCHANGED <<parseVars, client, arg, callNo, consumed, op, cmd, conn, nextConn, src,
                   srcFailed, sent, partials, events, connUse, reply>>

\* reader.read(&mut buffer) returned Err(_): `while let Ok(..)` ends the loop
StreamReadFail ==
    /\ pc = "StreamRead"
    /\ srcFailed' = TRUE
    /\ srcReads' = srcReads + 1
    /\ Goto("StreamTerminator")
    /\ UNCHANGED <<parseVars, client, arg, callNo, consumed, op, cmd, conn, nextConn, src,
                   pos, buffer, bytesRead, sent, partials, events, connUse, reply, result>>

StreamHeaderOk ==
    pc = "StreamHeader" /\ ConnectionWriteOk("header", ChunkHeader(bytesRead), "StreamPayload")

StreamHeaderFail == pc = "StreamHeader" /\ ConnectionWriteFail("header", ChunkHeader(bytesRead))

StreamPayloadOk ==
    /\ pc = "StreamPayload"
    /\ ConnectionWriteOk("payload", ChunkPayload(buffer, bytesRead),
                         IF LoopBreaks(bytesRead) THEN "StreamTerminator" ELSE "StreamRead")

StreamPayloadFail ==
    pc = "StreamPayload" /\ ConnectionWriteFail("payload", ChunkPayload(buffer, bytesRead))

StreamTerminatorOk ==
    pc = "StreamTerminator" /\ ConnectionWriteOk("terminator", Terminator, "Reading")

StreamTerminatorFail ==
    pc = "StreamTerminator" /\ ConnectionWriteFail("terminator", Terminator)

\* connection.read_to_string(&mut result) succeeded
StreamResponseOk ==
    /\ pc = "Reading"
    /\ op = "scan_stream"
    /\ \E r \in RepliesTo(op) :
        /\ reply' = r
        /\ result' = StreamResult(r)
        /\ Goto(IF result'.kind \in ErrorKinds THEN "Failed" ELSE "Done")
    /\ Note("read", conn, TRUE)
    /\ UNCHANGED <<parseVars, client, arg, callNo, consumed, op, cmd, conn, nextConn,
                   streamVars, sent, partials>>

StreamResponseFail ==
    /\ pc = "Reading"
    /\ op = "scan_stream"
    /\ result' = StreamReadError
    /\ Note("read", conn, FALSE)
    /\ Goto("Failed")
    /\ UNCHANGED <<parseVars, client, arg, callNo, consumed, op, cmd, conn, nextConn,
                   streamVars, sent, partials, reply>>

(***************************************************************************)
(* The call has returned: its connection and locals are dropped.           *)
(***************************************************************************)
Return ==
    /\ pc \in {"Done", "Failed"}
    /\ callNo < MaxCalls
    /\ ~consumed
    /\ pc' = "Idle"
    /\ phaseLog' = <<"Idle">>
    /\ op' = "none"
    /\ arg' = <<>>
    /\ cmd' = <<>>
    /\ conn' = 0
    /\ src' = <<>>
    /\ pos' = 0
    /\ buffer' = ZeroBuffer
    /\ bytesRead' = 0
    /\ srcReads' = 0
    /\ srcFailed' = FALSE
    /\ sent' = <<>>
    /\ partials' = 0
    /\ events' = <<>>
    /\ reply' = <<>>
    /\ result' = Pending
    /\ UNCHANGED <<parseVars, client, callNo, consumed, nextConn, connUse>>

Next ==
    \/ New
    \/ NewWithTimeout
    \/ CallPing
    \/ CallVersion
    \/ CallReload
    \/ CallStats
    \/ CallShutdown
    \/ CallScanPath
    \/ CallMultiscanPath
    \/ CallScanStream
    \/ ConnectOk
    \/ ConnectFail
    \/ SendWriteOk
    \/ SendWriteFail
    \/ SendReadOk
    \/ SendReadFail
    \/ StreamCommandOk
    \/ StreamCommandFail
    \/ StreamReadOk
    \/ StreamReadFail
    \/ StreamHeaderOk
    \/ StreamHeaderFail
    \/ StreamPayloadOk
    \/ StreamPayloadFail
    \/ StreamTerminatorOk
    \/ StreamTerminatorFail
    \/ StreamResponseOk
    \/ StreamResponseFail
    \/ Return

Spec == Init /\ [][Next]_vars

(***************************************************************************)
(* ClamScanResult::parse tried on its own, on texts made of a few tokens.   *)
(***************************************************************************)
\* tokens a scan reply is made of here
MaxTokens == 4

\* NUL, " ", ":", "OK", "FOUND", "a"
ScanTokens == { <<0>>, <<32>>, <<58>>, <<79, 75>>, <<70, 79, 85, 78, 68>>, <<97>> }

RECURSIVE TextsOf(_, _)
\* the texts made of at most n of the given tokens
TextsOf(tokens, n) ==
    IF n = 0 THEN {<<>>}
    ELSE LET shorter == TextsOf(tokens, n - 1)
         IN  shorter \cup {t \o x : t \in tokens, x \in shorter}

ScanTexts == TextsOf(ScanTokens, MaxTokens)

ScanParseInit ==
    /\ ClientInit
    /\ input \in {[fn |-> "ClamScanResult::parse", text |-> t] : t \in ScanTexts}

\* let parsed = ClamScanResult::parse(raw)
ScanParseApply ==
    /\ output = <<>>
    /\ output' = <<ClamScanResultParse(input.text)>>
    /\ UNCHANGED <<callVars, input>>

ScanParseNext == ScanParseApply

SpecScanParse == ScanParseInit /\ [][ScanParseNext]_vars

(***************************************************************************)
(* ClamScanResult::parse on single segments that report a finding.         *)
(***************************************************************************)
MaxFoundTokens == 6

\* " ", ":", "a", "b", "FOUND"
FoundTokens == { <<32>>, <<58>>, <<97>>, <<98>>, <<70, 79, 85, 78, 68>> }

\* "/some/file: SOME_BAD-Virus FOUND"
SomeFileFound ==
    <<47, 115, 111, 109, 101, 47, 102, 105, 108, 101, 58, 32, 83, 79, 77, 69, 95, 66,
      65, 68, 45, 86, 105, 114, 117, 115, 32, 70, 79, 85, 78, 68>>

\* "/some/file"
SomeFile ==
    <<47, 115, 111, 109, 101, 47, 102, 105, 108, 101>>

\* "SOME_BAD-Virus"
SomeBadVirus ==
    <<83, 79, 77, 69, 95, 66, 65, 68, 45, 86, 105, 114, 117, 115>>

FoundTexts == TextsOf(FoundTokens, MaxFoundTokens) \cup {SomeFileFound}

FoundParseInit ==
    /\ ClientInit
    /\ input \in {[fn |-> "ClamScanResult::parse", text |-> t] : t \in FoundTexts}

SpecFoundParse == FoundParseInit /\ [][ScanParseNext]_vars

(***************************************************************************)
(* ClamVersion::parse on its own.                                          *)
(***************************************************************************)
MaxFields == 4

MaxNuls == 2

\* "ClamAV 0.100.0", the tag of the reference VERSION reply
RefTag ==
    <<67, 108, 97, 109, 65, 86, 32, 48, 46, 49, 48, 48, 46, 48>>

\* "24802", the build number of the reference VERSION reply
RefBuild == <<50, 52, 56, 48, 50>>

\* "18446744073709551616", one more than u64::MAX
TooBigBuild ==
    <<49, 56, 52, 52, 54, 55, 52, 52, 48, 55, 51, 55, 48, 57, 53, 53, 49, 54, 49, 54>>

\* the fields tried: "", the three of the reference reply, "x", a NUL and a
\* number too big for u64
VersionFields == { <<>>, RefTag, RefBuild, RefDate, <<120>>, <<0>>, TooBigBuild }

RECURSIVE JoinedFields(_, _)
\* the texts made of one to n of the given fields with '/' between them
JoinedFields(fields, n) ==
    IF n = 1 THEN fields
    ELSE LET shorter == JoinedFields(fields, n - 1)
         IN  shorter \cup {t \o <<47>> \o f : t \in shorter, f \in fields}

\* k NULs
Nuls(k) == [i \in 1..k |-> 0]

\* "onlyonepart"
OnlyOnePart ==
    <<111, 110, 108, 121, 111, 110, 101, 112, 97, 114, 116>>

VersionTexts ==
    {t \o Nuls(k) : t \in JoinedFields(VersionFields, MaxFields), k \in 0..MaxNuls}
        \cup {OnlyOnePart}

VersionParseInit ==
    /\ ClientInit
    /\ input \in {[fn |-> "ClamVersion::parse", text |-> t] : t \in VersionTexts}

\* let parsed = ClamVersion::parse(raw)
VersionParseApply ==
    /\ output = <<>>
    /\ output' = <<ClamVersionParse(input.text)>>
    /\ UNCHANGED <<callVars, input>>

VersionParseNext == VersionParseApply

SpecVersionParse == VersionParseInit /\ [][VersionParseNext]_vars

(***************************************************************************)
(* ClamStats::parse on its own: the reference reply with one field changed, *)
(* with one label taken out, or cut short.                                 *)
(***************************************************************************)
\* first and last index in RefStats of the text after each label but the last
RefFieldSpans ==
    << <<8, 8>>, <<18, 30>>, <<46, 46>>, <<54, 54>>, <<60, 61>>, <<76, 77>>, <<86, 86>>,
       <<94, 120>>, <<126, 131>>, <<138, 143>>, <<150, 155>>, <<162, 167>>, <<180, 185>>,
       <<193, 194>>, <<206, 213>>, <<227, 234>> >>

\* first and last index in RefStats of "POOLS: " and the sixteen labels after it
RefLabelSpans ==
    << <<1, 7>>, <<9, 17>>, <<31, 45>>, <<47, 53>>, <<55, 59>>, <<62, 75>>, <<78, 85>>,
       <<87, 93>>, <<121, 125>>, <<132, 137>>, <<144, 149>>, <<156, 161>>, <<168, 179>>,
       <<186, 192>>, <<195, 205>>, <<214, 226>>, <<235, 235>> >>

\* the text of a span of RefStats
RefText(span) == SubSeq(RefStats, span[1], span[2])

\* RefStats with the text of a span replaced
RefStatsWith(span, v) ==
    SubSeq(RefStats, 1, span[1] - 1) \o v \o SubSeq(RefStats, span[2] + 1, Len(RefStats))

\* the field texts tried: "7", "0042", "x", "A B", "12M"
StatsValues == { <<55>>, <<48, 48, 52, 50>>, <<120>>, <<65, 32, 66>>, <<49, 50, 77>> }

\* a reply and how it was made: field (0: none) given the text value, label
\* (0: none) replaced by '#', the first len characters kept
StatsInputs ==
    {[fn |-> "ClamStats::parse", field |-> k, value |-> v, label |-> 0,
      len |-> Len(RefStatsWith(RefFieldSpans[k], v)),
      text |-> RefStatsWith(RefFieldSpans[k], v)] :
         k \in 1..Len(RefFieldSpans), v \in StatsValues}
    \cup {[fn |-> "ClamStats::parse", field |-> 0, value |-> <<>>, label |-> j,
            len |-> Len(RefStatsWith(RefLabelSpans[j], <<35>>)),
            text |-> RefStatsWith(RefLabelSpans[j], <<35>>)] :
               j \in 1..Len(RefLabelSpans)}
    \cup {[fn |-> "ClamStats::parse", field |-> 0, value |-> <<>>, label |-> 0,
            len |-> n, text |-> SubSeq(RefStats, 1, n)] : n \in 0..Len(RefStats)}

StatsParseInit ==
    /\ ClientInit
    /\ input \in StatsInputs

\* let parsed = ClamStats::parse(raw)
StatsParseApply ==
    /\ output = <<>>
    /\ output' = <<ClamStatsParse(input.text)>>
    /\ UNCHANGED <<callVars, input>>

StatsParseNext == StatsParseApply

SpecStatsParse == StatsParseInit /\ [][StatsParseNext]_vars

(***************************************************************************)
(* Properties.                                                             *)
(***************************************************************************)
\* the call has returned
Returned == pc \in {"Done", "Failed"}

\* the last transport operation of the call was a response read that succeeded
ResponseReadOk == events # <<>> /\ Last(events).kind = "read" /\ Last(events).ok

\* the upload of scan_stream is over: the response is being or has been read
UploadOver == pc = "Reading" \/ \E i \in 1..Len(events) : events[i].kind = "read"

RECURSIVE Wire(_)
\* the bytes the transport took, in order
Wire(ws) ==
    IF ws = <<>> THEN <<>> ELSE Take(Head(ws).data, Head(ws).accepted) \o Wire(Tail(ws))

RECURSIVE DecodeChunks(_)
\* a daemon's reading of an INSTREAM upload: chunks of a 4-byte big-endian
\* length and that many bytes, up to the first chunk of length zero
DecodeChunks(bs) ==
    IF Len(bs) < 4 \/ bs[1] >= 128 THEN [ok |-> FALSE, data |-> <<>>, lens |-> <<>>]
    ELSE LET n == BeValue(SubSeq(bs, 1, 4))
         IN  IF n = 0 THEN [ok |-> TRUE, data |-> <<>>, lens |-> <<0>>]
             ELSE IF Len(bs) < 4 + n THEN [ok |-> FALSE, data |-> <<>>, lens |-> <<>>]
             ELSE LET r == DecodeChunks(Drop(bs, 4 + n))
                  IN  [ok |-> r.ok, data |-> SubSeq(bs, 5, 4 + n) \o r.data,
                       lens |-> <<n>> \o r.lens]

\* the indices at which a non-empty NUL-delimited segment of a text starts
SegmentStarts(text) ==
    {i \in 1..Len(text) : text[i] # 0 /\ (i = 1 \/ text[i - 1] = 0)}

\* the segment that starts at index i
SegmentAt(text, i) ==
    LET j == CHOOSE e \in i..Len(text) :
                 /\ \A k \in i..e : text[k] # 0
                 /\ (e = Len(text) \/ text[e + 1] = 0)
    IN  SubSeq(text, i, j)

\* the k-th non-empty segment of a text
NthSegment(text, k) ==
    LET starts == SegmentStarts(text)
        i == CHOOSE x \in starts : Cardinality({y \in starts : y <= x}) = k
    IN  SegmentAt(text, i)

\* the segment's last two characters are 'O', 'K'
EndsInOK(seg) == Len(seg) >= 2 /\ seg[Len(seg) - 1] = 79 /\ seg[Len(seg)] = 75

\* the characters 'F', 'O', 'U', 'N', 'D' stand next to each other in the segment
HasFOUND(seg) ==
    \E i \in 1..(Len(seg) - 4) :
        seg[i] = 70 /\ seg[i + 1] = 79 /\ seg[i + 2] = 85 /\ seg[i + 3] = 78 /\ seg[i + 4] = 68

\* C1: in scan_stream every chunk header written is exactly 4 bytes long and
\* is the big-endian form of the number of bytes the source read returned.
C1_HeaderIsFourByteLength ==
    \A i \in 1..Len(sent) :
        sent[i].part = "header" =>
            Len(sent[i].data) = 4 /\ BeValue(sent[i].data) = sent[i].n

\* C2: in scan_stream the payload written after a header is exactly the bytes
\* the source read returned, no more, for every read size including short ones.
C2_PayloadIsBytesRead ==
    \A i \in 1..Len(sent) :
        sent[i].part = "payload" =>
            sent[i].data = SubSeq(src, sent[i].start + 1, sent[i].start + sent[i].n)

\* C3: once the whole source is uploaded (every write taken in full), decoding
\* the bytes after zINSTREAM\0 as chunks up to the first zero-length chunk
\* gives back the source; a 10000-byte source gives 4096, 4096, 1808, 0.
C3_ChunkRoundTrip ==
    (op = "scan_stream" /\ pc = "Reading" /\ partials = 0 /\ ~srcFailed /\ pos = Len(src)) =>
        LET d == DecodeChunks(Drop(Wire(sent), Len(CmdInstream)))
        IN  /\ d.ok
            /\ d.data = src
            /\ (Len(src) = 10000 => d.lens = <<4096, 4096, 1808, 0>>)

\* C4: for a source of a whole number of blocks the upload loop makes at most
\* one read per block and one more, never reads again after the empty read,
\* and once the upload is over the last write is the terminator, written once.
C4_WholeBlocksTerminate ==
    (op = "scan_stream" /\ Len(src) % BlockSize = 0) =>
        /\ srcReads <= Len(src) \div BlockSize + 1
        /\ (pc = "StreamRead" => srcReads <= Len(src) \div BlockSize)
        /\ (UploadOver =>
               /\ Last(sent).part = "terminator"
               /\ Last(sent).data = <<0, 0, 0, 0>>
               /\ \A i \in 1..(Len(sent) - 1) : sent[i].part # "terminator")

\* C4, the case: an 8192-byte source, read three times, the response being read
C4_Witness ==
    /\ op = "scan_stream"
    /\ Len(src) = 2 * BlockSize
    /\ srcReads = 3
    /\ ~srcFailed
    /\ pc = "Reading"

\* C5: when a read of the source failed, scan_stream returns an error and no
\* scan outcome.
C5_SourceErrorReturned ==
    (op = "scan_stream" /\ srcFailed /\ Returned) => result.kind \in ErrorKinds

\* C6 as stated: a reply to scan_stream with more than one outcome is returned
\* as InvalidData.
C6_ManyOutcomesRejected ==
    (op = "scan_stream" /\ Returned /\ ResponseReadOk
        /\ Cardinality(SegmentStarts(reply)) > 1) =>
        result.kind = "InvalidData"

\* C6 as amended: a reply to scan_stream with more than one outcome is not an
\* error; scan_stream returns the outcome of the first non-empty segment.
C6_FirstOutcomeReturned ==
    (op = "scan_stream" /\ Returned /\ ResponseReadOk
        /\ Cardinality(SegmentStarts(reply)) > 1) =>
        /\ result.kind = "Ok"
        /\ result.scans = <<ClassifySegment(NthSegment(reply, 1))>>

\* C6, the case: a reply of an infected segment then a clean one was read
C6_Witness ==
    /\ op = "scan_stream"
    /\ Returned
    /\ ResponseReadOk
    /\ Cardinality(SegmentStarts(reply)) = 2
    /\ HasFOUND(NthSegment(reply, 1))
    /\ EndsInOK(NthSegment(reply, 2))
    /\ result.scans[1].tag = "Found"

\* C7: a reply to scan_stream without any outcome (empty, or NUL bytes only)
\* is returned as InvalidData carrying the reply, never as a result.
C7_NoOutcomeIsInvalidData ==
    (op = "scan_stream" /\ Returned /\ ResponseReadOk
        /\ \A i \in 1..Len(reply) : reply[i] = 0) =>
        /\ result.kind = "InvalidData"
        /\ result.text = reply
        /\ pc = "Failed"

\* C7, the case: a reply of NUL bytes only was read
C7_Witness ==
    /\ op = "scan_stream"
    /\ Returned
    /\ ResponseReadOk
    /\ Len(reply) = 2
    /\ \A i \in 1..Len(reply) : reply[i] = 0

\* C8: in every command that returns an error for it (the source of a
\* scan_stream having been read without error), a failed connect gives
\* ConnectionError and a failed write or response read gives CommandError.
C8_ErrorKindByPhase ==
    (pc = "Failed" /\ op # "ping" /\ ~srcFailed /\ events # <<>> /\ ~Last(events).ok) =>
        result.kind = IF Last(events).kind = "connect" THEN "ConnectionError"
                      ELSE "CommandError"

\* the steps from phase to phase that Idle -> Connecting -> Sending -> Reading ->
\* Done|Failed allows
PhaseSteps ==
    { <<"Idle", "Connecting">>, <<"Connecting", "Sending">>, <<"Connecting", "Failed">>,
      <<"Sending", "Reading">>, <<"Sending", "Failed">>, <<"Reading", "Done">>,
      <<"Reading", "Failed">> }

\* C9: a call makes one connect attempt, before anything else; its phases
\* follow Idle -> Connecting -> Sending -> Reading -> Done|Failed; its one
\* response read comes after all its writes; it uses one connection, and no
\* connection is used by two calls.
C9_OneExchangePerCall ==
    /\ phaseLog[1] = "Idle"
    /\ Last(phaseLog) = Phase(pc)
    /\ \A i \in 1..(Len(phaseLog) - 1) : <<phaseLog[i], phaseLog[i + 1]>> \in PhaseSteps
    /\ (Phase(pc) \in {"Idle", "Connecting"} <=> events = <<>>)
    /\ \A i \in 1..Len(events) : (events[i].kind = "connect" <=> i = 1)
    /\ \A i \in 1..Len(events) : events[i].kind = "read" => i = Len(events)
    /\ (Phase(pc) = "Done" => Last(events).kind = "read")
    /\ \A i \in 1..Len(events) : events[i].conn = events[1].conn
    /\ \A u \in connUse : \A v \in connUse : u[1] = v[1] => u[2] = v[2]

\* C9, the case: a second call, a scan_stream of a source of more than a block,
\* has returned a result
C9_Witness ==
    /\ callNo = 2
    /\ op = "scan_stream"
    /\ pc = "Done"
    /\ Len(src) > BlockSize
    /\ Cardinality(connUse) = 2

\* C10: ClamScanResult::parse gives, for each non-empty NUL-delimited segment in
\* turn, Ok if the segment ends with OK, else Found if it contains FOUND, else
\* Error carrying the segment.
C10_Classification ==
    output # <<>> =>
        LET outs == output[1]
        IN  /\ Len(outs) = Cardinality(SegmentStarts(input.text))
            /\ \A k \in 1..Len(outs) :
                   LET seg == NthSegment(input.text, k)
                   IN  IF EndsInOK(seg) THEN outs[k] = [tag |-> "Ok", a |-> <<>>, b |-> <<>>]
                       ELSE IF HasFOUND(seg) THEN outs[k].tag = "Found"
                       ELSE outs[k] = [tag |-> "Error", a |-> seg, b |-> <<>>]

\* C10, the case: a segment that contains FOUND and ends with OK was parsed
C10_Witness ==
    /\ output # <<>>
    /\ \E k \in 1..Len(output[1]) :
           /\ HasFOUND(NthSegment(input.text, k))
           /\ EndsInOK(NthSegment(input.text, k))
           /\ output[1][k].tag = "Ok"

\* the text without its last character if that is a NUL
WithoutTrailingNul(text) ==
    IF text # <<>> /\ text[Len(text)] = 0 THEN SubSeq(text, 1, Len(text) - 1) ELSE text

\* C11: ClamScanResult::parse gives one outcome for each non-empty
\* NUL-delimited segment, in the order of the segments, none for an empty
\* segment, and the same outcomes for a text with and without a trailing NUL.
C11_OneOutcomePerSegment ==
    (output # <<>> /\ input.fn = "ClamScanResult::parse") =>
        LET outs == output[1]
            bare == WithoutTrailingNul(input.text)
        IN  /\ Len(outs) = Cardinality(SegmentStarts(bare))
            /\ outs = ClamScanResultParse(bare)
            /\ \A k \in 1..Len(outs) :
                   LET seg == NthSegment(bare, k)
                   IN  /\ seg # <<>>
                       /\ outs[k].tag \in {"Ok", "Found", "Error"}
                       /\ outs[k].tag = "Ok" <=> EndsInOK(seg)
                       /\ outs[k].tag = "Found" => HasFOUND(seg)
                       /\ outs[k].tag = "Error" => outs[k].a = seg

\* C11, the case: a text of two different segments that ends with a NUL was
\* parsed into two outcomes
C11_Witness ==
    /\ output # <<>>
    /\ input.fn = "ClamScanResult::parse"
    /\ input.text # <<>>
    /\ input.text[Len(input.text)] = 0
    /\ Len(output[1]) = 2
    /\ output[1][1] # output[1][2]

\* characters that split_whitespace splits on
IsBlank(c) == c \in {9, 10, 11, 12, 13, 32}

\* the indexes at which a whitespace-delimited token of the segment starts
TokenStarts(seg) ==
    {i \in 1..Len(seg) : ~IsBlank(seg[i]) /\ (i = 1 \/ IsBlank(seg[i - 1]))}

\* the k-th whitespace-delimited token of the segment
NthToken(seg, k) ==
    LET starts == TokenStarts(seg)
        i == CHOOSE x \in starts : Cardinality({y \in starts : y <= x}) = k
        j == CHOOSE e \in i..Len(seg) :
                 /\ \A n \in i..e : ~IsBlank(seg[n])
                 /\ (e = Len(seg) \/ IsBlank(seg[e + 1]))
    IN  SubSeq(seg, i, j)

\* the token begins with the characters 'F', 'O', 'U', 'N', 'D'
BeginsFOUND(tok) ==
    Len(tok) >= 5 /\ tok[1] = 70 /\ tok[2] = 79 /\ tok[3] = 85 /\ tok[4] = 78 /\ tok[5] = 68

\* the number of the first token after the first that begins with FOUND, one
\* more than the number of tokens if there is none
FoundTokenNo(seg) ==
    LET n == Cardinality(TokenStarts(seg))
        hits == {k \in 2..n : BeginsFOUND(NthToken(seg, k))}
    IN  IF hits = {} THEN n + 1 ELSE CHOOSE k \in hits : \A h \in hits : k <= h

RECURSIVE TokensJoined(_, _, _)
\* the tokens number from..to of the segment, written one after the other
TokensJoined(seg, from, to) ==
    IF from > to THEN <<>>
    ELSE NthToken(seg, from) \o TokensJoined(seg, from + 1, to)

\* loc is tok without the ':' characters at its end
IsWithoutColons(loc, tok) ==
    /\ Len(loc) <= Len(tok)
    /\ loc = SubSeq(tok, 1, Len(loc))
    /\ \A i \in (Len(loc) + 1)..Len(tok) : tok[i] = 58
    /\ (loc # <<>> => loc[Len(loc)] # 58)

\* C12: for a segment classified Found the location is the first
\* whitespace-delimited token without its trailing ':' and the signature is the
\* following tokens, joined with nothing between them, up to and not including
\* the first that begins with FOUND; "/some/file: SOME_BAD-Virus FOUND" gives
\* Found("/some/file", "SOME_BAD-Virus").
C12_FoundFields ==
    (output # <<>> /\ input.fn = "ClamScanResult::parse") =>
        /\ \A k \in 1..Len(output[1]) :
               output[1][k].tag = "Found" =>
                   LET seg == NthSegment(input.text, k)
                   IN  /\ IsWithoutColons(output[1][k].a, NthToken(seg, 1))
                       /\ output[1][k].b = TokensJoined(seg, 2, FoundTokenNo(seg) - 1)
        /\ input.text = SomeFileFound =>
               output[1] = <<[tag |-> "Found", a |-> SomeFile, b |-> SomeBadVirus]>>

\* C12, the case: a finding whose signature is made of two tokens and whose
\* first token ends with ':' was parsed
C12_Witness ==
    /\ output # <<>>
    /\ input.fn = "ClamScanResult::parse"
    /\ Len(output[1]) = 1
    /\ output[1][1].tag = "Found"
    /\ LET seg == NthSegment(input.text, 1)
       IN  /\ FoundTokenNo(seg) = 4
           /\ NthToken(seg, 1)[Len(NthToken(seg, 1))] = 58
           /\ output[1][1].a # <<>>

\* the number of '/' characters of a text
SlashCount(text) == Cardinality({i \in 1..Len(text) : text[i] = 47})

\* the index of the k-th '/' of a text, 0 for k = 0, one past the end if
\* there are fewer than k
SlashAt(text, k) ==
    LET at == {i \in 1..Len(text) : text[i] = 47}
    IN  IF k = 0 THEN 0
        ELSE IF k > Cardinality(at) THEN Len(text) + 1
        ELSE CHOOSE i \in at : Cardinality({j \in at : j <= i}) = k

\* the k-th '/'-delimited field of a text
FieldNo(text, k) == SubSeq(text, SlashAt(text, k - 1) + 1, SlashAt(text, k) - 1)

\* the text without the NULs at its end
WithoutTrailingNuls(text) ==
    LET keep == {n \in 0..Len(text) : \A i \in (n + 1)..Len(text) : text[i] = 0}
    IN  SubSeq(text, 1, CHOOSE n \in keep : \A m \in keep : n <= m)

\* one or more decimal digits
IsDecimal(f) == f # <<>> /\ \A i \in 1..Len(f) : f[i] \in 48..57

RECURSIVE NumberOf(_)
\* the number written by decimal digits
NumberOf(f) ==
    IF f = <<>> THEN 0 ELSE 10 * NumberOf(SubSeq(f, 1, Len(f) - 1)) + (f[Len(f)] - 48)

\* decimal digits that write a number of at most 18446744073709551615
IsU64Text(f) ==
    /\ IsDecimal(f)
    /\ LET zeros == CHOOSE z \in 0..Len(f) :
                        /\ \A i \in 1..z : f[i] = 48
                        /\ (z = Len(f) \/ f[z + 1] # 48)
           sig == SubSeq(f, zeros + 1, Len(f))
           max == <<49, 56, 52, 52, 54, 55, 52, 52, 48, 55, 51, 55, 48, 57, 53, 53, 49, 54, 49, 53>>
       IN  \/ Len(sig) < 20
           \/ /\ Len(sig) = 20
              /\ \A i \in 1..20 : (\A k \in 1..(i - 1) : sig[k] = max[k]) => sig[i] <= max[i]

\* three fields, the second a number that fits u64, the third the reference
\* date
IsVersionText(text) ==
    /\ SlashCount(text) = 2
    /\ IsU64Text(FieldNo(text, 2))
    /\ FieldNo(text, 3) = RefDate

\* C13: ClamVersion::parse fails with InvalidData carrying the input as it
\* was given whenever the input, trailing NULs apart, does not split on '/'
\* into exactly three fields; it returns no version then.
C13_NotThreeFields ==
    (output # <<>> /\ input.fn = "ClamVersion::parse") =>
        (SlashCount(WithoutTrailingNuls(input.text)) # 2 =>
            /\ output[1].kind = "InvalidData"
            /\ output[1].text = input.text
            /\ output[1].data = <<>>)

\* C13, the case: a text of four fields that ends with a NUL was refused
C13_Witness ==
    /\ output # <<>>
    /\ input.fn = "ClamVersion::parse"
    /\ SlashCount(input.text) = 3
    /\ input.text[Len(input.text)] = 0
    /\ output[1].kind = "InvalidData"

\* C14 as claimed: ClamVersion::parse strips one trailing NUL and no more, so
\* a text that ends with two or more NULs keeps the others in its last field
\* and is a version only if it is one with a single NUL taken off.
C14_OnlyOneNulStripped ==
    (output # <<>> /\ input.fn = "ClamVersion::parse") =>
        (output[1].kind = "Ok" <=> IsVersionText(WithoutTrailingNul(input.text)))

\* C14: ClamVersion::parse strips every trailing NUL: it returns a version
\* exactly when the text without the NULs at its end is one, and the fields
\* of the version are those of that text.
C14_TrailingNulsStripped ==
    (output # <<>> /\ input.fn = "ClamVersion::parse") =>
        LET clean == WithoutTrailingNuls(input.text)
        IN  /\ output[1].kind = "Ok" <=> IsVersionText(clean)
            /\ output[1].kind = "Ok" =>
                   /\ output[1].data.version_tag = FieldNo(clean, 1)
                   /\ output[1].data.build_number = NumberOf(FieldNo(clean, 2))
                   /\ output[1].data.release_date = <<2018, 8, 1, 8, 43, 37>>
            /\ output[1].kind = ClamVersionParse(clean).kind
            /\ output[1].data = ClamVersionParse(clean).data

\* C14, the case: a text that ends with two NULs was parsed into a version
C14_Witness ==
    /\ output # <<>>
    /\ input.fn = "ClamVersion::parse"
    /\ Len(input.text) >= 2
    /\ input.text[Len(input.text)] = 0
    /\ input.text[Len(input.text) - 1] = 0
    /\ output[1].kind = "Ok"

\* the fields of a STATS reply that are numbers: pools, threads live, idle and
\* max, idle-timeout and queue
NumericFieldNos == {1, 3, 4, 5, 6, 7}

\* the reply was made with every label in place, up to the line end after
\* pools_total at least, and with a number where a number belongs
IsStatsReply(in) ==
    /\ in.label = 0
    /\ in.field = 0 => in.len >= RefLabelSpans[17][2]
    /\ in.field \in NumericFieldNos => IsDecimal(in.value)

\* C15: ClamStats::parse is all or nothing: with a label missing or a number
\* field that is no unsigned integer it returns one InvalidData carrying the
\* whole input and no statistics; it returns statistics, all fourteen, only
\* when every label was found in order.
C15_AllOrNothing ==
    (output # <<>> /\ input.fn = "ClamStats::parse") =>
        /\ output[1].kind = (IF IsStatsReply(input) THEN "Ok" ELSE "InvalidData")
        /\ output[1].kind = "InvalidData" =>
               output[1].text = input.text /\ output[1].data = <<>>
        /\ output[1].kind = "Ok" =>
               /\ output[1].text = <<>>
               /\ DOMAIN output[1].data =
                      {"pools", "state", "threads_live", "threads_idle", "threads_max",
                       "threads_idle_timeout_secs", "queue", "mem_heap", "mem_mmap",
                       "mem_used", "mem_free", "mem_releasable", "pools_used",
                       "pools_total"}

\* C15, the case: a reply in which a label after the first fields is missing
\* was refused whole
C15_Witness ==
    /\ output # <<>>
    /\ input.fn = "ClamStats::parse"
    /\ input.label > 8
    /\ output[1].kind = "InvalidData"
    /\ output[1].text = input.text

\* the statistics of the reference STATS reply
RefStatsData ==
    [pools |-> 1,
     state |-> <<86, 65, 76, 73, 68, 32, 80, 82, 73, 77, 65, 82, 89>>,
     threads_live |-> 1,
     threads_idle |-> 0,
     threads_max |-> 12,
     threads_idle_timeout_secs |-> 30,
     queue |-> 0,
     mem_heap |-> <<57, 46, 48, 56, 50, 77>>,
     mem_mmap |-> <<48, 46, 48, 48, 48, 77>>,
     mem_used |-> <<54, 46, 57, 48, 50, 77>>,
     mem_free |-> <<50, 46, 49, 56, 52, 77>>,
     mem_releasable |-> <<48, 46, 49, 50, 57, 77>>,
     pools_used |-> <<53, 54, 53, 46, 57, 55, 57, 77>>,
     pools_total |-> <<53, 54, 53, 46, 57, 57, 57, 77>>]

\* the text put after the i-th label when the reply was made
FieldGiven(in, i) == IF in.field = i THEN in.value ELSE RefText(RefFieldSpans[i])

\* C16: for a STATS reply in the fixed label order each field is the text
\* between its label and the next (as a number for the counters, as text for
\* the memory fields), the text between " items\n" and "heap " and between
\* " pools " and "pools_used " is skipped, and the reference reply gives
\* pools 1, state VALID PRIMARY, threads 1/0/12, idle-timeout 30, queue 0,
\* heap 9.082M, ... pools_total 565.999M.
C16_FieldsBetweenLabels ==
    (output # <<>> /\ input.fn = "ClamStats::parse") =>
        /\ input.text = RefStats =>
               output[1].kind = "Ok" /\ output[1].data = RefStatsData
        /\ input.field \in {8, 14} =>
               output[1].kind = "Ok" /\ output[1].data = RefStatsData
        /\ output[1].kind = "Ok" =>
               LET d == output[1].data
               IN  /\ d.pools = NumberOf(FieldGiven(input, 1))
                   /\ d.state = FieldGiven(input, 2)
                   /\ d.threads_live = NumberOf(FieldGiven(input, 3))
                   /\ d.threads_idle = NumberOf(FieldGiven(input, 4))
                   /\ d.threads_max = NumberOf(FieldGiven(input, 5))
                   /\ d.threads_idle_timeout_secs = NumberOf(FieldGiven(input, 6))
                   /\ d.queue = NumberOf(FieldGiven(input, 7))
                   /\ d.mem_heap = FieldGiven(input, 9)
                   /\ d.mem_mmap = FieldGiven(input, 10)
                   /\ d.mem_used = FieldGiven(input, 11)
                   /\ d.mem_free = FieldGiven(input, 12)
                   /\ d.mem_releasable = FieldGiven(input, 13)
                   /\ d.pools_used = FieldGiven(input, 15)
                   /\ d.pools_total = FieldGiven(input, 16)

\* C16, the case: a reply whose max thread count reads 0042 was parsed
C16_Witness ==
    /\ output # <<>>
    /\ input.fn = "ClamStats::parse"
    /\ input.field = 5
    /\ input.value = <<48, 48, 52, 50>>
    /\ output[1].kind = "Ok"
    /\ output[1].data.threads_max = 42

\* C17: multiscan_path(path) sends the MULTISCAN command for the path, not
\* the bytes that scan_path(path, false) sends.
C17_MultiscanCommand ==
    (op = "multiscan_path" /\ sent # <<>>) =>
        /\ sent[1].data = <<122, 77, 85, 76, 84, 73, 83, 67, 65, 78, 32>> \o arg[1] \o <<0>>
        /\ sent[1].data # <<122, 83, 67, 65, 78, 32>> \o arg[1] \o <<0>>

\* C18: scan_path(path, continue_on_virus) writes "zCONTSCAN <path>\0" when
\* continue_on_virus is true and "zSCAN <path>\0" when it is false, the path
\* as given, and writes nothing else on the connection.
C18_ScanPathCommand ==
    op = "scan_path" =>
        /\ Len(sent) <= 1
        /\ Cardinality({i \in 1..Len(events) : events[i].kind = "write"}) = Len(sent)
        /\ \A i \in 1..Len(sent) :
               /\ sent[i].data =
                      (IF arg[2] THEN <<122, 67, 79, 78, 84, 83, 67, 65, 78, 32>>
                       ELSE <<122, 83, 67, 65, 78, 32>>)
                          \o arg[1] \o <<0>>
               /\ sent[i].ok => sent[i].accepted = Len(sent[i].data)
        /\ pc \in {"Reading", "Done"} => Len(sent) = 1 /\ sent[1].ok

\* C18, the case: scan_path of a path with a space in it, continue_on_virus
\* true, has written its command and returned
C18_Witness ==
    /\ op = "scan_path"
    /\ arg = <<<<47, 116, 32, 120>>, TRUE>>
    /\ pc = "Done"
    /\ Len(sent) = 1
    /\ sent[1].ok

\* C19: ping returns no error: true when the exchange succeeded and the reply
\* to zPING\0, taken up to its terminating NUL if it has one, is PONG, false
\* when the connect, the write or the read failed or the reply is another.
C19_PingAnswersPong ==
    (op = "ping" /\ Returned) =>
        /\ result.kind = "Bool"
        /\ result.flag <=>
               (ResponseReadOk /\ WithoutTrailingNul(reply) = <<80, 79, 78, 71>>)

\* C20: constructing a client does no I/O: new and new_with_timeout return
\* InvalidIpAddress for a text that is no IP address and nothing is ever
\* connected; for an IP address they return a client with the socket ip:port
\* and the timeout None (new) or Some(timeout_secs seconds); the calls made
\* later connect with a timeout exactly when one is stored.
C20_ConstructionWithoutIO ==
    /\ callNo = 0 => nextConn = 0 /\ events = <<>> /\ connUse = {} /\ sent = <<>>
    /\ client.fn # "none" =>
           IF client.ip = <<49, 50, 55, 46, 48, 46, 48, 46, 49>>
           THEN /\ client.built.status = "Ok"
                /\ client.built.socket = <<[ip |-> <<127, 0, 0, 1>>, port |-> client.port]>>
                /\ client.fn = "new" => client.built.timeout = <<>>
                /\ client.fn = "new_with_timeout" =>
                       client.built.timeout = <<[secs |-> client.secs[1], nanos |-> 0]>>
           ELSE /\ client.built.status = "InvalidIpAddress"
                /\ client.built.socket = <<>>
                /\ callNo = 0
    /\ \A i \in 1..Len(events) :
           events[i].kind = "connect" =>
               /\ events[i].via.socket = client.built.socket[1]
               /\ events[i].via.timeout = client.built.timeout
               /\ events[i].via.fn = "TcpStream::connect_timeout" <=>
                      client.built.timeout # <<>>
               /\ events[i].via.fn = "TcpStream::connect" <=> client.fn = "new"

\* C20, the case: a client made by new_with_timeout has connected for a call
C20_Witness ==
    /\ client.fn = "new_with_timeout"
    /\ client.built.status = "Ok"
    /\ events # <<>>
    /\ events[1].kind = "connect"
    /\ events[1].ok
    /\ events[1].via.fn = "TcpStream::connect_timeout"

RECURSIVE SumOf(_)
\* the sum of a sequence of numbers
SumOf(ns) == IF ns = <<>> THEN 0 ELSE ns[1] + SumOf(SubSeq(ns, 2, Len(ns)))

\* C21: in what scan_stream puts on the wire the only chunk of length zero is
\* the terminator: every chunk header before it carries a length above zero,
\* the terminator is 4 zero bytes, and nothing is written after it, also for
\* an empty source and a source of a whole number of blocks.
C21_OnlyTerminatorIsEmpty ==
    op = "scan_stream" =>
        /\ \A i \in 1..Len(sent) :
               /\ sent[i].part = "header" => BeValue(sent[i].data) > 0
               /\ sent[i].part = "terminator" =>
                      sent[i].data = <<0, 0, 0, 0>> /\ i = Len(sent)
        /\ (pc = "Reading" /\ partials = 0) =>
               LET wire == SubSeq(Wire(sent), Len(CmdInstream) + 1, Len(Wire(sent)))
                   d == DecodeChunks(wire)
               IN  /\ d.ok
                   /\ \A k \in 1..(Len(d.lens) - 1) : d.lens[k] > 0
                   /\ Len(wire) = SumOf(d.lens) + 4 * Len(d.lens)

\* C22 as claimed: in any call a failed connect, write or response read is the
\* last transport operation of the call and the call returns an error.
C22_FailureReturnsError ==
    \A i \in 1..Len(events) :
        ~events[i].ok =>
            /\ i = Len(events)
            /\ pc = "Failed"
            /\ result.kind \in {"ConnectionError", "CommandError"}

\* C22: in any call a failed connect, write or response read is the last
\* transport operation of the call, and the call returns an error, ping
\* returning false in its place; in scan_stream a failed write of the command,
\* of a chunk header, of a chunk payload or of the terminator ends the call
\* with CommandError.
C22_FailureEndsCall ==
    /\ \A i \in 1..Len(events) :
           ~events[i].ok =>
               /\ i = Len(events)
               /\ pc = "Failed"
               /\ IF op = "ping"
                  THEN result.kind = "Bool" /\ result.flag = FALSE
                  ELSE result.kind \in {"ConnectionError", "CommandError"}
               /\ (op = "scan_stream" /\ events[i].kind = "write") =>
                      /\ result.kind = "CommandError"
                      /\ sent[Len(sent)].part \in {"command", "header", "payload", "terminator"}
    /\ \A j \in 1..Len(sent) : ~sent[j].ok => j = Len(sent) /\ ~events[Len(events)].ok

\* C22, the case: the write of the terminator of a scan_stream failed
C22_Witness ==
    /\ op = "scan_stream"
    /\ pc = "Failed"
    /\ sent # <<>>
    /\ sent[Len(sent)].part = "terminator"
    /\ ~sent[Len(sent)].ok
    /\ ~events[Len(events)].ok
    /\ result.kind = "CommandError"

RECURSIVE Uploaded(_)
\* the source bytes the chunks written stand for: of each payload the bytes
\* the read before it returned
Uploaded(ws) ==
    IF ws = <<>> THEN <<>>
    ELSE (IF ws[1].part = "payload" THEN SubSeq(ws[1].data, 1, ws[1].n) ELSE <<>>)
             \o Uploaded(SubSeq(ws, 2, Len(ws)))

\* C23: scan_stream uploads every byte of the source before the terminator,
\* also when a read returns fewer than 4096 bytes while more remain: once the
\* terminator is written after reads that all succeeded (and writes that were
\* all taken whole), the chunks written make up the whole source.
C23_ShortReadGoesOn ==
    (op = "scan_stream" /\ ~srcFailed /\ partials = 0 /\ sent # <<>>
        /\ sent[Len(sent)].part = "terminator") =>
        /\ pos = Len(src)
        /\ Uploaded(sent) = src

\* C24: when every write of a scan_stream reported success, every byte handed
\* to the transport (command, headers, payloads, terminator) went out, whole
\* and in order, also when the transport took fewer bytes than offered.
C24_WritesGoOutWhole ==
    (op = "scan_stream" /\ \A i \in 1..Len(sent) : sent[i].ok) =>
        /\ \A i \in 1..Len(sent) : sent[i].accepted = Len(sent[i].data)
        /\ Len(Wire(sent)) = SumOf([i \in 1..Len(sent) |-> Len(sent[i].data)])

\* C25: for a text of exactly three '/'-delimited fields (trailing NULs
\* apart) ClamVersion::parse returns IntParseError when the second field is
\* no unsigned 64-bit integer, whatever the third is, otherwise
\* DateParseError when the third field is no date of the form
\* "<weekday> <month> <day> <time> <year>", otherwise a version whose tag is
\* the first field as it stands and whose build number is the value of the
\* second.
C25_ErrorOrder ==
    (output # <<>> /\ input.fn = "ClamVersion::parse") =>
        LET clean == WithoutTrailingNuls(input.text)
        IN  SlashCount(clean) = 2 =>
                IF ~IsU64Text(FieldNo(clean, 2))
                THEN output[1].kind = "IntParseError" /\ output[1].data = <<>>
                ELSE IF FieldNo(clean, 3) # RefDate
                THEN output[1].kind = "DateParseError" /\ output[1].data = <<>>
                ELSE /\ output[1].kind = "Ok"
                     /\ output[1].data.version_tag = FieldNo(clean, 1)
                     /\ output[1].data.build_number = NumberOf(FieldNo(clean, 2))

\* C25, the case: a text of three fields whose second is a number too big
\* for u64 and whose third is no date was refused with IntParseError
C25_Witness ==
    /\ output # <<>>
    /\ input.fn = "ClamVersion::parse"
    /\ SlashCount(input.text) = 2
    /\ Len(FieldNo(input.text, 2)) = 20
    /\ IsDecimal(FieldNo(input.text, 2))
    /\ FieldNo(input.text, 3) = <<120>>
    /\ output[1].kind = "IntParseError"

\* C26: every chunk length scan_stream writes is between 0 and 4096 and is
\* written as it is, within 32 bits, neither cut nor wrapped; a read that
\* reported more than 2^32-1 bytes would end the call with
\* InvalidDataLengthError before a byte of its chunk is written (no read
\* into the 4096-byte buffer reports that many).
C26_ChunkLengthInRange ==
    op = "scan_stream" =>
        /\ bytesRead \in 0..4096
        /\ \A i \in 1..Len(sent) :
               sent[i].part = "header" =>
                   /\ sent[i].n \in 0..4096
                   /\ BeValue(sent[i].data) = sent[i].n
                   /\ \A k \in 1..(Len(sent[i].data) - 4) : sent[i].data[k] = 0
        /\ result.kind = "InvalidDataLengthError" =>
               /\ bytesRead > 4096
               /\ Cardinality({i \in 1..Len(sent) : sent[i].part = "header"}) < srcReads

\* C26, the case: the lengths 4096 and 0 of a source of one whole block were
\* both written
C26_Witness ==
    /\ op = "scan_stream"
    /\ Len(src) = 4096
    /\ \E i, j \in 1..Len(sent) :
           /\ i < j
           /\ sent[i].part = "header" /\ sent[i].n = 4096
           /\ sent[j].part = "header" /\ sent[j].n = 0

====
